---- MODULE Spec2Model ----
(***************************************************************************)
(* Model of the Container layout component                                 *)
(* (frontend/src/components/layout/container.tsx).                         *)
(*                                                                         *)
(* Container is a function from its props to a React element tree.  The    *)
(* state of the model is the props of the last render and the tree that    *)
(* render produced; every action is one render of the component with one   *)
(* prop changed by the parent.                                             *)
(*                                                                         *)
(* JavaScript values are records [t |-> typeof, v |-> printed value]; an   *)
(* array is [t |-> "array", v |-> sequence].  A non-empty class string is  *)
(* the sequence of its class tokens.                                       *)
(***************************************************************************)
EXTENDS Integers, Sequences, FiniteSets, TLC

VARIABLES props, tree

vars == <<props, tree>>

(* ---------------------------- bounds ----------------------------------- *)

\* longest labels array the parent passes
MaxLabels == 2

(* ------------------------- JavaScript values --------------------------- *)

Undefined == [t |-> "undefined", v |-> ""]
Null      == [t |-> "null", v |-> ""]
True      == [t |-> "boolean", v |-> "true"]
False     == [t |-> "boolean", v |-> "false"]
Num(s)    == [t |-> "number", v |-> s]
Str(s)    == [t |-> "string", v |-> s]
Elem(s)   == [t |-> "element", v |-> s]
Arr(s)    == [t |-> "array", v |-> s]

\* JavaScript ToBoolean: what `x && ...` and `!x` test
Truthy(x) ==
    CASE x.t \in {"undefined", "null"} -> FALSE
      [] x.t = "boolean" -> x.v = "true"
      [] x.t = "number"  -> x.v \notin {"0", "NaN"}
      [] x.t = "string"  -> x.v # ""
      [] OTHER           -> TRUE

(* ------------------------------ inputs --------------------------------- *)

\* values of the `label` prop (React.ReactNode)
LabelValues ==
    { Undefined, Null, False, Str(""), Num("0"), Str("Settings"),
      Elem("<b>Title</b>") }

\* values of the `children` prop
ChildrenValues == { Undefined, Str("body"), Elem("<main/>") }

\* values of the `className` prop
ClassNameValues ==
    { Undefined, Str(""), Arr(<<"custom-x">>), Arr(<<"custom-x", "p-4">>) }

\* the optional fields of one entry of `labels`
OptionalFields ==
    { [icon |-> Undefined, isBeta |-> Undefined, isLoading |-> Undefined,
       rightContent |-> Undefined],
      [icon |-> Elem("<Icon/>"), isBeta |-> True, isLoading |-> False,
       rightContent |-> Str("3")],
      [icon |-> Undefined, isBeta |-> False, isLoading |-> True,
       rightContent |-> Elem("<Badge/>")] }

\* entries of the `labels` prop
Descriptors ==
    { [label |-> l, to |-> d, icon |-> o.icon, isBeta |-> o.isBeta,
       isLoading |-> o.isLoading, rightContent |-> o.rightContent] :
        l \in {Str("Chat"), Elem("<i>Code</i>")}, d \in {"/a", "/b"},
        o \in OptionalFields }

(* ---------------------------- the tree --------------------------------- *)

\* a block under the root: kind tells which JSX element it is
Node(kind, className, tabs, content) ==
    [kind |-> kind, className |-> className, tabs |-> tabs,
     content |-> content]

BaseClasses ==
    <<"bg-base-secondary", "border", "border-neutral-600", "rounded-xl",
      "flex", "flex-col", "h-full">>

\* a mutant of clsx: the caller's classes replace the base classes
clsxReplace(base, className) ==
    IF Truthy(className) THEN className.v ELSE base

\* clsx(base, className): the truthy arguments joined by a space
clsx(base, className) ==
    IF Truthy(className) THEN base \o className.v ELSE base

\* a mutant of NavTab: isBeta and isLoading exchanged
NavTabSwapped(d) ==
    [key |-> d.to, to |-> d.to, label |-> d.label, icon |-> d.icon,
     isBeta |-> d.isLoading, isLoading |-> d.isBeta,
     rightContent |-> d.rightContent]

\* the <NavTab .../> element built from one entry of labels
NavTab(d) ==
    [key |-> d.to, to |-> d.to, label |-> d.label, icon |-> d.icon,
     isBeta |-> d.isBeta, isLoading |-> d.isLoading,
     rightContent |-> d.rightContent]

\* a mutant of labels.map: an entry whose `to` was seen before is skipped
RECURSIVE MapLabelsDedup(_)
MapLabelsDedup(items) ==
    IF items = <<>> THEN <<>>
    ELSE LET n == Len(items)
             init == MapLabelsDedup(SubSeq(items, 1, n - 1))
         IN  IF \E i \in 1..(n - 1) : items[i].to = items[n].to
             THEN init
             ELSE Append(init, NavTab(items[n]))

\* labels.map(...): one NavTab per entry, in order
MapLabels(items) == [i \in 1..Len(items) |-> NavTab(items[i])]

\* what React puts in the tree for a child that is not an element:
\* nothing for undefined, null, booleans and "", a text node otherwise
RenderPrimitive(x) ==
    IF x.t = "number" \/ (x.t = "string" /\ x.v # "")
    THEN <<Node("text", <<>>, <<>>, x)>>
    ELSE <<>>

\* {labels && (<div ...>{labels.map(...)}</div>)}
LabelsSlot(p) ==
    IF Truthy(p.labels)
    THEN <<Node("tabs", <<"flex", "text-xs", "h-[36px]">>,
                MapLabels(p.labels.v), Undefined)>>
    ELSE RenderPrimitive(p.labels)

\* a mutant of the label slot: the `!labels` test is missing
LabelSlotNoGuard(p) ==
    IF ~Truthy(p.label) THEN RenderPrimitive(p.label)
    ELSE <<Node("label",
                <<"px-2", "h-[36px]", "border-b", "border-neutral-600",
                  "text-xs", "flex", "items-center">>,
                <<>>, p.label)>>

\* {!labels && label && (<div ...>{label}</div>)}
LabelSlot(p) ==
    IF Truthy(p.labels) THEN RenderPrimitive(False)
    ELSE IF ~Truthy(p.label) THEN RenderPrimitive(p.label)
    ELSE <<Node("label",
                <<"px-2", "h-[36px]", "border-b", "border-neutral-600",
                  "text-xs", "flex", "items-center">>,
                <<>>, p.label)>>

\* a mutant of the content region: rendered only when there is no header
ContentSlotNoHeader(p) ==
    IF Truthy(p.labels) \/ Truthy(p.label) THEN <<>>
    ELSE <<Node("content", <<"overflow-hidden", "flex-grow", "rounded-b-xl">>,
                <<>>, p.children)>>

\* <div className="overflow-hidden flex-grow rounded-b-xl">{children}</div>
ContentSlot(p) ==
    <<Node("content", <<"overflow-hidden", "flex-grow", "rounded-b-xl">>,
           <<>>, p.children)>>

\* Container(props): the root <div> and the blocks under it
Container(p) ==
    [type |-> "div",
     className |-> clsx(BaseClasses, p.className),
     children |-> LabelsSlot(p) \o LabelSlot(p) \o ContentSlot(p)]

(* ---------------------------- behaviour -------------------------------- *)

NoProps ==
    [label |-> Undefined, labels |-> Undefined, children |-> Undefined,
     className |-> Undefined]

\* the first render: the all-empty configuration
Init ==
    /\ props = NoProps
    /\ tree = Container(NoProps)

\* the parent renders the component with another label
SetLabel ==
    \E x \in LabelValues :
        /\ props' = [props EXCEPT !.label = x]
        /\ tree' = Container(props')

\* the parent renders the component without labels
ClearLabels ==
    /\ props' = [props EXCEPT !.labels = Undefined]
    /\ tree' = Container(props')

\* the parent renders the component with labels = []
EmptyLabels ==
    /\ props' = [props EXCEPT !.labels = Arr(<<>>)]
    /\ tree' = Container(props')

\* the parent renders the component with one more entry in labels
PushLabel ==
    \E d \in Descriptors :
        LET items == IF props.labels.t = "array" THEN props.labels.v ELSE <<>>
        IN  /\ Len(items) < MaxLabels
            /\ props' = [props EXCEPT !.labels = Arr(Append(items, d))]
            /\ tree' = Container(props')

\* the parent renders the component with other children
SetChildren ==
    \E x \in ChildrenValues :
        /\ props' = [props EXCEPT !.children = x]
        /\ tree' = Container(props')

\* the parent renders the component with another className
SetClassName ==
    \E x \in ClassNameValues :
        /\ props' = [props EXCEPT !.className = x]
        /\ tree' = Container(props')

Next ==
    \/ SetLabel
    \/ ClearLabels
    \/ EmptyLabels
    \/ PushLabel
    \/ SetChildren
    \/ SetClassName

Spec == Init /\ [][Next]_vars

(* ------------------------- reading the tree ---------------------------- *)

Blocks == tree.children

Range(s) == { s[i] : i \in DOMAIN s }

\* positions of header regions (tab strip or static label) under the root
HeaderAt == { i \in DOMAIN Blocks : Blocks[i].kind \in {"tabs", "label"} }

TabStripAt == { i \in DOMAIN Blocks : Blocks[i].kind = "tabs" }

LabelHeaderAt == { i \in DOMAIN Blocks : Blocks[i].kind = "label" }

ContentAt == { i \in DOMAIN Blocks : Blocks[i].kind = "content" }

\* labels is a sequence with at least one entry
LabelsNonEmpty == props.labels.t = "array" /\ Len(props.labels.v) > 0

LabelsAbsent == props.labels.t = "undefined"

\* label carries displayable content: a number, a non-empty string or an
\* element
LabelSupplied ==
    \/ props.label.t \in {"number", "element"}
    \/ props.label.t = "string" /\ props.label.v # ""

\* some value is passed as label
LabelGiven == props.label.t # "undefined"

\* the value x shows somewhere in the tree
Appears(x) ==
    \E i \in DOMAIN Blocks :
        \/ Blocks[i].content = x
        \/ \E j \in DOMAIN Blocks[i].tabs :
              x \in { Blocks[i].tabs[j].label, Blocks[i].tabs[j].icon,
                      Blocks[i].tabs[j].rightContent }

\* the header mode the tree shows
RenderedMode ==
    IF TabStripAt # {} THEN "tabs"
    ELSE IF LabelHeaderAt # {} THEN "label"
    ELSE "none"

(* ------------------------------ claims --------------------------------- *)

\* C1: a header region is rendered if and only if labels is a non-empty
\* sequence or label is supplied; in every other configuration the content
\* region is the only block under the root.
C1_HeaderIffLabelsOrLabel ==
    /\ (HeaderAt # {}) <=> (LabelsNonEmpty \/ LabelSupplied)
    /\ ~(LabelsNonEmpty \/ LabelSupplied) =>
           (Len(Blocks) = 1 /\ Blocks[1].kind = "content")

\* C2: when labels is a non-empty sequence and a label is passed too, the
\* header is the tab strip built from labels and the label's content is
\* nowhere in the tree.
C2_LabelsWin ==
    (LabelsNonEmpty /\ LabelGiven) =>
        /\ Len(Blocks) = 2
        /\ Blocks[1].kind = "tabs"
        /\ Len(Blocks[1].tabs) = Len(props.labels.v)
        /\ \A j \in DOMAIN Blocks[1].tabs :
              Blocks[1].tabs[j].label = props.labels.v[j].label
        /\ Blocks[2].kind = "content"
        /\ ~Appears(props.label)

C2_Witness ==
    /\ LabelsNonEmpty
    /\ props.label = Str("Settings")
    /\ Blocks[1].kind = "tabs"
    /\ Len(Blocks[1].tabs) = 2

\* C3: a labels sequence of length N > 0 gives exactly N tab elements, in
\* the order of the sequence, the i-th one carrying the i-th entry's label,
\* to, icon, isBeta, isLoading and rightContent, with key equal to its to.
C3_TabFidelity ==
    LabelsNonEmpty =>
        /\ Cardinality(TabStripAt) = 1
        /\ \A i \in TabStripAt :
              /\ Len(Blocks[i].tabs) = Len(props.labels.v)
              /\ \A j \in DOMAIN Blocks[i].tabs :
                    LET tab == Blocks[i].tabs[j]
                        d   == props.labels.v[j]
                    IN  /\ tab.label = d.label
                        /\ tab.to = d.to
                        /\ tab.icon = d.icon
                        /\ tab.isBeta = d.isBeta
                        /\ tab.isLoading = d.isLoading
                        /\ tab.rightContent = d.rightContent
                        /\ tab.key = d.to

C3_Witness ==
    /\ LabelsNonEmpty
    /\ Len(props.labels.v) = 2
    /\ props.labels.v[1].to # props.labels.v[2].to
    /\ props.labels.v[1].isBeta # props.labels.v[1].isLoading
    /\ TabStripAt = {1}
    /\ Len(Blocks[1].tabs) = 2

\* C4: when label is supplied and labels is absent, the header region holds
\* exactly the label content and no tab element is rendered.
C4_StaticLabel ==
    (LabelsAbsent /\ LabelSupplied) =>
        /\ TabStripAt = {}
        /\ Cardinality(LabelHeaderAt) = 1
        /\ \A i \in LabelHeaderAt : Blocks[i].content = props.label
        /\ Len(Blocks) = 2

\* C5: the header mode is tabs if labels is present and non-empty, else
\* label if label is supplied, else none; with labels the empty sequence and
\* a label supplied the header renders the static label content.
C5_HeaderMode ==
    /\ RenderedMode =
          (IF LabelsNonEmpty THEN "tabs"
           ELSE IF LabelSupplied THEN "label"
           ELSE "none")
    /\ (props.labels.t = "array" /\ props.labels.v = <<>> /\ LabelSupplied) =>
          \E i \in LabelHeaderAt : Blocks[i].content = props.label

\* C6: the root's class set always contains every base class, and contains
\* the caller's classes too when className is passed.
C6_ClassNameAugments ==
    /\ Range(BaseClasses) \subseteq Range(tree.className)
    /\ Truthy(props.className) =>
          Range(props.className.v) \subseteq Range(tree.className)

C6_Witness ==
    /\ props.className = Arr(<<"custom-x", "p-4">>)
    /\ "custom-x" \in Range(tree.className)
    /\ "rounded-xl" \in Range(tree.className)

\* C8: a labels sequence with a repeated destination is rendered like any
\* other: one tab element per entry, the repeated keys kept as they are.
HasDuplicateTo ==
    /\ props.labels.t = "array"
    /\ \E i, j \in DOMAIN props.labels.v :
          i # j /\ props.labels.v[i].to = props.labels.v[j].to

C8_DuplicatesKept ==
    HasDuplicateTo =>
        /\ TabStripAt = {1}
        /\ [j \in DOMAIN Blocks[1].tabs |-> Blocks[1].tabs[j].key] =
              [j \in DOMAIN props.labels.v |-> props.labels.v[j].to]
        /\ ContentAt # {}

C8_Witness ==
    /\ HasDuplicateTo
    /\ TabStripAt = {1}
    /\ Len(Blocks[1].tabs) = 2
    /\ Blocks[1].tabs[1].key = Blocks[1].tabs[2].key
    /\ Blocks[1].tabs[1] # Blocks[1].tabs[2]

\* C9: in every header mode there is exactly one content region, it holds
\* children unchanged, and it is the last block under the root, after the
\* header region when there is one.
C9_ContentLast ==
    /\ ContentAt = {Len(Blocks)}
    /\ Len(Blocks) >= 1
    /\ Blocks[Len(Blocks)].content = props.children
    /\ \A i \in HeaderAt : i < Len(Blocks)

C9_Witness ==
    /\ HeaderAt = {1}
    /\ ContentAt = {2}
    /\ props.children = Elem("<main/>")
    /\ Blocks[2].content = Elem("<main/>")

\* C10: at most one header region is rendered, never the tab strip together
\* with the static label, and nothing but that header region comes before
\* the content region under the root.
C10_OnlyHeaderBeforeContent ==
    /\ Cardinality(HeaderAt) <= 1
    /\ ~(TabStripAt # {} /\ LabelHeaderAt # {})
    /\ \A i \in DOMAIN Blocks :
          (\E c \in ContentAt : i < c) => i \in HeaderAt

====
